---- MODULE Spec2Model ----
(***************************************************************************)
(* Model of the graphijs Graph class (src/graphs-package/Graph.js), its    *)
(* four named constructors (src/graphs-package/index.js) and the scenario  *)
(* graph built by the GraphCanvas component.                               *)
(*                                                                         *)
(* JavaScript values that reach arithmetic or the weight validation are    *)
(* records [type, kind, n]; plain objects used as maps are functions whose *)
(* DOMAIN is the set of own properties.                                    *)
(***************************************************************************)
EXTENDS Integers, Sequences, FiniteSets, TLC

VARIABLES ctor, isDirected, isWeighted, counterId, keyToIdTable,
          idToKeyTable, links, mainNodes, last

vars == <<ctor, isDirected, isWeighted, counterId, keyToIdTable,
          idToKeyTable, links, mainNodes, last>>

(* ------------------------------ bounds -------------------------------- *)

\* number of nodes a graph may create over its lifetime
MaxId == 3

\* number of links a graph may hold at a time
MaxLinks == 2

\* number of addLink calls that build a graph for the path queries
MaxBuild == 3

\* keys the callers use: ordinary strings, none of them the name of a
\* property that a plain object inherits (toString, constructor, ...)
Keys == {"A", "B", "C"}

\* finite weights the callers pass
FiniteWeights == {1, 3}

(* --------------------------- JavaScript values ------------------------ *)

Num(n) == [n |-> n, type |-> "number", kind |-> "finite"]
NaN == [n |-> 0, type |-> "number", kind |-> "NaN"]
Infinity == [n |-> 0, type |-> "number", kind |-> "Infinity"]
NegInfinity == [n |-> 0, type |-> "number", kind |-> "-Infinity"]
\* the value undefined; ToNumber(undefined) is NaN
undefinedValue == [n |-> 0, type |-> "undefined", kind |-> "NaN"]
\* a numeric string such as "5"; ToNumber("5") is 5
NumericString(n) == [n |-> n, type |-> "string", kind |-> "finite"]

\* global isNaN(v): ToNumber(v) is NaN
isNaN(v) == v.kind = "NaN"
\* global isFinite(v): ToNumber(v) is neither NaN nor an infinity
isFinite(v) == v.kind = "finite"
typeof(v) == v.type

\* a + b on numbers (undefined coerces to NaN)
JsAdd(a, b) ==
  IF a.kind = "NaN" \/ b.kind = "NaN" THEN NaN
  ELSE IF a.kind = "finite" /\ b.kind = "finite" THEN Num(a.n + b.n)
  ELSE IF a.kind = "finite" THEN [b EXCEPT !.type = "number"]
  ELSE IF b.kind = "finite" THEN [a EXCEPT !.type = "number"]
  ELSE IF a.kind = b.kind THEN [a EXCEPT !.type = "number"]
  ELSE NaN

\* a < b on numbers; false as soon as one side is NaN or undefined
JsLess(a, b) ==
  IF a.kind = "NaN" \/ b.kind = "NaN" THEN FALSE
  ELSE IF a.kind = "finite" /\ b.kind = "finite" THEN a.n < b.n
  ELSE IF a.kind = b.kind THEN FALSE
  ELSE a.kind = "-Infinity" \/ b.kind = "Infinity"

\* key sentinels: the value read from a missing property, and null
undefined == "undefined"
null == "null"

(* ------------------------- plain objects as maps ---------------------- *)

EmptyObject == [x \in {} |-> 0]
Put(obj, k, v) == [x \in (DOMAIN obj) \cup {k} |-> IF x = k THEN v ELSE obj[x]]
Delete(obj, k) == [x \in (DOMAIN obj) \ {k} |-> obj[x]]

\* enumeration order of integer-like own properties: ascending numeric order
RECURSIVE OwnKeys(_)
OwnKeys(S) ==
  IF S = {} THEN <<>>
  ELSE LET m == CHOOSE x \in S : \A y \in S : x <= y
       IN <<m>> \o OwnKeys(S \ {m})

Range(s) == {s[i] : i \in DOMAIN s}

(* ------------------------------ the graph ----------------------------- *)

\* the object the methods run on
this == [isDirected |-> isDirected, isWeighted |-> isWeighted,
         counterId |-> counterId, keyToIdTable |-> keyToIdTable,
         idToKeyTable |-> idToKeyTable, links |-> links,
         mainNodes |-> mainNodes]

Graph(directed, weighted) ==
  [isDirected |-> directed, isWeighted |-> weighted, counterId |-> 0,
   keyToIdTable |-> EmptyObject, idToKeyTable |-> EmptyObject,
   links |-> EmptyObject, mainNodes |-> {}]

type(g) == [directed |-> g.isDirected, weighted |-> g.isWeighted]

hasNode(g, key) == key \in DOMAIN g.keyToIdTable

hasLink(g, key1, key2) ==
  /\ hasNode(g, key1)
  /\ hasNode(g, key2)
  /\ g.keyToIdTable[key2] \in DOMAIN g.links[g.keyToIdTable[key1]]

linkWeight(g, key1, key2) ==
  IF ~hasLink(g, key1, key2) THEN undefinedValue
  ELSE g.links[g.keyToIdTable[key1]][g.keyToIdTable[key2]]

\* a method result: the object afterwards, the returned value, the error thrown
Result(g, ret, error) == [this |-> g, ret |-> ret, error |-> error]

\* faulty variant: the smallest id no node holds is handed out again
\* instead of the counter's value
addNode_reusesId(g, key) ==
  IF key \notin DOMAIN g.keyToIdTable
  THEN LET id == CHOOSE i \in 0..g.counterId :
                   /\ i \notin DOMAIN g.idToKeyTable
                   /\ \A j \in 0..(i - 1) : j \in DOMAIN g.idToKeyTable
       IN Result([g EXCEPT !.counterId = @ + 1,
                           !.keyToIdTable = Put(@, key, id),
                           !.idToKeyTable = Put(@, id, key),
                           !.links = Put(@, id, EmptyObject)],
                 TRUE, "none")
  ELSE Result(g, FALSE, "none")

\* faulty variant: the check of line 20 for a known key is missing
addNode_noCheck(g, key) ==
  LET id == g.counterId
  IN Result([g EXCEPT !.counterId = id + 1,
                      !.keyToIdTable = Put(@, key, id),
                      !.idToKeyTable = Put(@, id, key),
                      !.links = Put(@, id, EmptyObject)],
            TRUE, "none")

addNode(g, key) ==
  IF key \notin DOMAIN g.keyToIdTable
  THEN LET id == g.counterId
       IN Result([g EXCEPT !.counterId = id + 1,
                           !.keyToIdTable = Put(@, key, id),
                           !.idToKeyTable = Put(@, id, key),
                           !.links = Put(@, id, EmptyObject)],
                 TRUE, "none")
  ELSE Result(g, FALSE, "none")

\* faulty variant: the weight argument is kept on an unweighted graph
effectiveWeight_ignoresFlag(g, weight) ==
  IF weight = undefinedValue THEN Num(1) ELSE weight

\* line 37-39: the weight an unweighted graph or a missing argument gets
effectiveWeight(g, weight) ==
  IF ~g.isWeighted \/ weight = undefinedValue THEN Num(1) ELSE weight

\* faulty variant: infinite weights pass the validation
invalidWeight_noFiniteCheck(weight) ==
  isNaN(weight) \/ typeof(weight) # "number"

\* line 40: the condition under which addLink throws
invalidWeight(weight) ==
  isNaN(weight) \/ typeof(weight) # "number" \/ ~isFinite(weight)

\* faulty variant: the reverse direction of an undirected link is not stored
storeLink_forwardOnly(g, key1, key2, weight) ==
  LET g1 == IF ~hasNode(g, key1) THEN addNode(g, key1).this ELSE g
      g2 == IF ~hasNode(g1, key2) THEN addNode(g1, key2).this ELSE g1
      id1 == g2.keyToIdTable[key1]
      id2 == g2.keyToIdTable[key2]
  IN Result([g2 EXCEPT !.links[id1] = Put(@, id2, weight)], TRUE, "none")

\* faulty variant: the second endpoint is created before the first
storeLink_key2First(g, key1, key2, weight) ==
  LET g1 == IF ~hasNode(g, key2) THEN addNode(g, key2).this ELSE g
      g2 == IF ~hasNode(g1, key1) THEN addNode(g1, key1).this ELSE g1
      id1 == g2.keyToIdTable[key1]
      id2 == g2.keyToIdTable[key2]
      g3 == [g2 EXCEPT !.links[id1] = Put(@, id2, weight)]
      g4 == IF ~g3.isDirected
            THEN [g3 EXCEPT !.links[id2] = Put(@, id1, weight)]
            ELSE g3
  IN Result(g4, TRUE, "none")

\* faulty variant: line 52 assigns the flag (this.isDirected = false) where
\* it should test it
storeLink_assignsFlag(g, key1, key2, weight) ==
  LET g1 == IF ~hasNode(g, key1) THEN addNode(g, key1).this ELSE g
      g2 == IF ~hasNode(g1, key2) THEN addNode(g1, key2).this ELSE g1
      id1 == g2.keyToIdTable[key1]
      id2 == g2.keyToIdTable[key2]
  IN Result([g2 EXCEPT !.links[id1] = Put(@, id2, weight),
                       !.isDirected = FALSE],
            TRUE, "none")

\* lines 43-55: create missing endpoints, store the link
storeLink(g, key1, key2, weight) ==
  LET g1 == IF ~hasNode(g, key1) THEN addNode(g, key1).this ELSE g
      g2 == IF ~hasNode(g1, key2) THEN addNode(g1, key2).this ELSE g1
      id1 == g2.keyToIdTable[key1]
      id2 == g2.keyToIdTable[key2]
      g3 == [g2 EXCEPT !.links[id1] = Put(@, id2, weight)]
      g4 == IF ~g3.isDirected
            THEN [g3 EXCEPT !.links[id2] = Put(@, id1, weight)]
            ELSE g3
  IN Result(g4, TRUE, "none")

\* faulty variant: the endpoints are created before the weight is validated
addLink_nodesFirst(g, key1, key2, weight) ==
  IF key1 = key2 THEN Result(g, FALSE, "none")
  ELSE IF hasLink(g, key1, key2) THEN Result(g, FALSE, "none")
  ELSE LET w == effectiveWeight(g, weight)
           g1 == IF ~hasNode(g, key1) THEN addNode(g, key1).this ELSE g
           g2 == IF ~hasNode(g1, key2) THEN addNode(g1, key2).this ELSE g1
       IN IF invalidWeight(w) THEN Result(g2, FALSE, "TypeError")
          ELSE storeLink(g2, key1, key2, w)

\* faulty variant: the check of line 34 for an existing link comes after the
\* link is stored
addLink_overwrites(g, key1, key2, weight) ==
  IF key1 = key2 THEN Result(g, FALSE, "none")
  ELSE LET w == effectiveWeight(g, weight)
       IN IF invalidWeight(w) THEN Result(g, FALSE, "TypeError")
          ELSE IF hasLink(g, key1, key2)
               THEN Result(storeLink(g, key1, key2, w).this, FALSE, "none")
               ELSE storeLink(g, key1, key2, w)

\* faulty variant: the check of line 31 for equal keys is missing
addLink_noSelfCheck(g, key1, key2, weight) ==
  IF hasLink(g, key1, key2) THEN Result(g, FALSE, "none")
  ELSE LET w == effectiveWeight(g, weight)
       IN IF invalidWeight(w) THEN Result(g, FALSE, "TypeError")
          ELSE storeLink(g, key1, key2, w)

addLink(g, key1, key2, weight) ==
  IF key1 = key2 THEN Result(g, FALSE, "none")
  ELSE IF hasLink(g, key1, key2) THEN Result(g, FALSE, "none")
  ELSE LET w == effectiveWeight(g, weight)
       IN IF invalidWeight(w) THEN Result(g, FALSE, "TypeError")
          ELSE storeLink(g, key1, key2, w)

\* faulty variant: the reverse entry is deleted in a directed graph too
removeLink_bothDirections(g, key1, key2) ==
  IF ~hasLink(g, key1, key2) THEN Result(g, FALSE, "none")
  ELSE LET id1 == g.keyToIdTable[key1]
           id2 == g.keyToIdTable[key2]
           g1 == [g EXCEPT !.links[id1] = Delete(@, id2)]
           g2 == [g1 EXCEPT !.links[id2] = Delete(@, id1)]
       IN Result(g2, TRUE, "none")

removeLink(g, key1, key2) ==
  IF ~hasLink(g, key1, key2) THEN Result(g, FALSE, "none")
  ELSE LET id1 == g.keyToIdTable[key1]
           id2 == g.keyToIdTable[key2]
           g1 == [g EXCEPT !.links[id1] = Delete(@, id2)]
           g2 == IF ~g1.isDirected
                 THEN [g1 EXCEPT !.links[id2] = Delete(@, id1)]
                 ELSE g1
       IN Result(g2, TRUE, "none")

\* a value that is either an array of keys or undefined
Defined(keys) == [keys |-> keys, defined |-> TRUE]
Absent == [keys |-> <<>>, defined |-> FALSE]

\* faulty variant: result.unshift instead of result.push at line 98
connectedWith_unshift(g, key) ==
  IF ~hasNode(g, key) THEN Absent
  ELSE LET ids == OwnKeys(DOMAIN g.links[g.keyToIdTable[key]])
       IN Defined([i \in 1..Len(ids) |->
                     IF ids[Len(ids) + 1 - i] \in DOMAIN g.idToKeyTable
                     THEN g.idToKeyTable[ids[Len(ids) + 1 - i]] ELSE undefined])

connectedWith(g, key) ==
  IF ~hasNode(g, key) THEN Absent
  ELSE LET ids == OwnKeys(DOMAIN g.links[g.keyToIdTable[key]])
       IN Defined([i \in 1..Len(ids) |->
                     IF ids[i] \in DOMAIN g.idToKeyTable
                     THEN g.idToKeyTable[ids[i]] ELSE undefined])

\* lines 108-113: the loop over the neighbours read before the loop
RECURSIVE removeIncident(_, _, _, _)
removeIncident(g, key, neighbours, i) ==
  IF i > Len(neighbours) THEN g
  ELSE LET g1 == removeLink(g, key, neighbours[i]).this
           g2 == IF g1.isDirected
                 THEN removeLink(g1, neighbours[i], key).this
                 ELSE g1
       IN removeIncident(g2, key, neighbours, i + 1)

\* faulty variant: the key keeps its id (line 116 missing)
removeNode_keepsKey(g, key) ==
  IF ~hasNode(g, key) THEN Result(g, FALSE, "none")
  ELSE LET neighbours == connectedWith(g, key).keys
           g1 == removeIncident(g, key, neighbours, 1)
           id == g1.keyToIdTable[key]
       IN Result([g1 EXCEPT !.links[id] = EmptyObject], TRUE, "none")

\* faulty variant: the id keeps its key (line 117 missing)
removeNode_keepsIdToKey(g, key) ==
  IF ~hasNode(g, key) THEN Result(g, FALSE, "none")
  ELSE LET neighbours == connectedWith(g, key).keys
           g1 == removeIncident(g, key, neighbours, 1)
           id == g1.keyToIdTable[key]
       IN Result([g1 EXCEPT !.links = Delete(@, id),
                            !.keyToIdTable = Delete(@, key)],
                 TRUE, "none")

\* faulty variant: the counter is wound back when a node is removed
removeNode_decrements(g, key) ==
  IF ~hasNode(g, key) THEN Result(g, FALSE, "none")
  ELSE LET neighbours == connectedWith(g, key).keys
           g1 == removeIncident(g, key, neighbours, 1)
           id == g1.keyToIdTable[key]
       IN Result([g1 EXCEPT !.links = Delete(@, id),
                            !.keyToIdTable = Delete(@, key),
                            !.idToKeyTable = Delete(@, id),
                            !.counterId = @ - 1],
                 TRUE, "none")

\* faulty variant: the key loses its tag when its node is removed
removeNode_untags(g, key) ==
  IF ~hasNode(g, key) THEN Result(g, FALSE, "none")
  ELSE LET neighbours == connectedWith(g, key).keys
           g1 == removeIncident(g, key, neighbours, 1)
           id == g1.keyToIdTable[key]
       IN Result([g1 EXCEPT !.links = Delete(@, id),
                            !.keyToIdTable = Delete(@, key),
                            !.idToKeyTable = Delete(@, id),
                            !.mainNodes = @ \ {key}],
                 TRUE, "none")

removeNode(g, key) ==
  IF ~hasNode(g, key) THEN Result(g, FALSE, "none")
  ELSE LET neighbours == connectedWith(g, key).keys
           g1 == removeIncident(g, key, neighbours, 1)
           id == g1.keyToIdTable[key]
       IN Result([g1 EXCEPT !.links = Delete(@, id),
                            !.keyToIdTable = Delete(@, key),
                            !.idToKeyTable = Delete(@, id)],
                 TRUE, "none")

\* faulty variant: res.unshift instead of res.push at line 124
nodes_unshift(g) ==
  LET ids == OwnKeys(DOMAIN g.idToKeyTable)
  IN [i \in 1..Len(ids) |-> g.idToKeyTable[ids[Len(ids) + 1 - i]]]

nodes(g) ==
  LET ids == OwnKeys(DOMAIN g.idToKeyTable)
  IN [i \in 1..Len(ids) |-> g.idToKeyTable[ids[i]]]

setMainNode(g, key) ==
  IF hasNode(g, key)
  THEN Result([g EXCEPT !.mainNodes = @ \cup {key}], TRUE, "none")
  ELSE Result(g, FALSE, "none")

\* lines 137-139: the tagged keys; the order of the returned array (the
\* order in which the keys were tagged) is not kept
getMainNodes(g) == g.mainNodes

(* ------------------- dijkstra (Graph.js lines 141-196) ---------------- *)

\* property read: undefined for a missing property
Get(obj, k) == IF k \in DOMAIN obj THEN obj[k] ELSE undefinedValue

\* queue.sort((a, b) => distances[a] - distances[b]): a stable sort, so x
\* goes before the first entry whose distance is strictly greater
RECURSIVE insertSorted(_, _, _)
insertSorted(sorted, x, distances) ==
  IF sorted = <<>> THEN <<x>>
  ELSE IF JsLess(Get(distances, x), Get(distances, Head(sorted)))
       THEN <<x>> \o sorted
       ELSE <<Head(sorted)>> \o insertSorted(Tail(sorted), x, distances)

\* faulty variant: the queue is left in arrival order
sortQueue_unsorted(queue, distances) == queue

RECURSIVE sortQueue(_, _)
sortQueue(queue, distances) ==
  IF queue = <<>> THEN <<>>
  ELSE insertSorted(sortQueue(SubSeq(queue, 1, Len(queue) - 1), distances),
                    queue[Len(queue)], distances)

includes(queue, x) == \E i \in DOMAIN queue : queue[i] = x

\* faulty variant: line 155 missing, the start keeps the distance Infinity
dijkstraStart_noZero(g, startKey) ==
  LET ns == Range(nodes(g))
  IN [distances |-> [node \in ns |-> Infinity],
      queue |-> <<startKey>>,
      previous |-> [node \in ns |-> null],
      visited |-> {},
      stopped |-> FALSE]

\* lines 146-156: the search state before the loop
dijkstraStart(g, startKey) ==
  LET ns == Range(nodes(g))
  IN [distances |-> [node \in ns |-> IF node = startKey THEN Num(0) ELSE Infinity],
      queue |-> <<startKey>>,
      previous |-> [node \in ns |-> null],
      visited |-> {},
      stopped |-> FALSE]

RECURSIVE relax(_, _, _, _, _)
\* faulty variant: line 171 counts one per link instead of adding its weight
relax_countsHops(g, st, current, neighbors, i) ==
  IF i > Len(neighbors) THEN st
  ELSE LET neighbor == neighbors[i]
           alt == JsAdd(Get(st.distances, current), Num(1))
           st1 == IF neighbor \notin st.visited
                     /\ JsLess(alt, Get(st.distances, neighbor))
                  THEN [st EXCEPT !.distances = Put(@, neighbor, alt),
                                  !.previous = Put(@, neighbor, current),
                                  !.queue = IF ~includes(@, neighbor)
                                            THEN Append(@, neighbor) ELSE @]
                  ELSE st
       IN relax(g, st1, current, neighbors, i + 1)

\* faulty variant: the neighbour is pushed although the queue holds it
\* already (the test of line 175 missing)
relax_pushesAgain(g, st, current, neighbors, i) ==
  IF i > Len(neighbors) THEN st
  ELSE LET neighbor == neighbors[i]
           alt == JsAdd(Get(st.distances, current), linkWeight(g, current, neighbor))
           st1 == IF neighbor \notin st.visited
                     /\ JsLess(alt, Get(st.distances, neighbor))
                  THEN [st EXCEPT !.distances = Put(@, neighbor, alt),
                                  !.previous = Put(@, neighbor, current),
                                  !.queue = Append(@, neighbor)]
                  ELSE st
       IN relax(g, st1, current, neighbors, i + 1)

\* lines 169-180: relaxation of the outgoing links of current
relax(g, st, current, neighbors, i) ==
  IF i > Len(neighbors) THEN st
  ELSE LET neighbor == neighbors[i]
           alt == JsAdd(Get(st.distances, current), linkWeight(g, current, neighbor))
           st1 == IF neighbor \notin st.visited
                     /\ JsLess(alt, Get(st.distances, neighbor))
                  THEN [st EXCEPT !.distances = Put(@, neighbor, alt),
                                  !.previous = Put(@, neighbor, current),
                                  !.queue = IF ~includes(@, neighbor)
                                            THEN Append(@, neighbor) ELSE @]
                  ELSE st
       IN relax(g, st1, current, neighbors, i + 1)

\* faulty variant: queue.pop() instead of queue.shift() at line 160
dijkstraIteration_pop(g, st, endKey) ==
  LET sorted == sortQueue(st.queue, st.distances)
      current == sorted[Len(sorted)]
      st1 == [st EXCEPT !.queue = SubSeq(sorted, 1, Len(sorted) - 1)]
  IN IF current \in st.visited THEN st1
     ELSE LET st2 == [st1 EXCEPT !.visited = @ \cup {current}]
          IN IF current = endKey THEN [st2 EXCEPT !.stopped = TRUE]
             ELSE LET neighbors == connectedWith(g, current)
                  IN IF neighbors.defined
                     THEN relax(g, st2, current, neighbors.keys, 1)
                     ELSE st2

\* lines 159-181: one iteration of the while loop
dijkstraIteration(g, st, endKey) ==
  LET sorted == sortQueue(st.queue, st.distances)
      current == Head(sorted)
      st1 == [st EXCEPT !.queue = Tail(sorted)]
  IN IF current \in st.visited THEN st1
     ELSE LET st2 == [st1 EXCEPT !.visited = @ \cup {current}]
          IN IF current = endKey THEN [st2 EXCEPT !.stopped = TRUE]
             ELSE LET neighbors == connectedWith(g, current)
                  IN IF neighbors.defined
                     THEN relax(g, st2, current, neighbors.keys, 1)
                     ELSE st2

\* line 158: the while loop
RECURSIVE dijkstraLoop(_, _, _)
dijkstraLoop(g, st, endKey) ==
  IF st.stopped \/ Len(st.queue) = 0 THEN st
  ELSE dijkstraLoop(g, dijkstraIteration(g, st, endKey), endKey)

\* lines 184-189: walk the predecessor chain back from endKey
RECURSIVE walkBack(_, _, _)
walkBack(previous, current, path) ==
  IF current = null THEN path
  ELSE walkBack(previous, previous[current], <<current>> \o path)

NoPath == [path |-> <<>>, distance |-> Infinity]

\* faulty variant: line 191 does not compare the head of the path with the
\* start key
dijkstra_noStartCheck(g, startKey, endKey) ==
  IF ~hasNode(g, startKey) \/ ~hasNode(g, endKey) THEN NoPath
  ELSE LET st == dijkstraLoop(g, dijkstraStart(g, startKey), endKey)
           path == walkBack(st.previous, endKey, <<>>)
       IN IF Len(path) = 0 THEN NoPath
          ELSE [path |-> path, distance |-> st.distances[endKey]]

dijkstra(g, startKey, endKey) ==
  IF ~hasNode(g, startKey) \/ ~hasNode(g, endKey) THEN NoPath
  ELSE LET st == dijkstraLoop(g, dijkstraStart(g, startKey), endKey)
           path == walkBack(st.previous, endKey, <<>>)
       IN IF Len(path) = 0 \/ path[1] # startKey THEN NoPath
          ELSE [path |-> path, distance |-> st.distances[endKey]]

(* ----------------- findAllPaths (Graph.js lines 198-225) -------------- *)

\* path.pop()
pop(path) == IF path = <<>> THEN path ELSE SubSeq(path, 1, Len(path) - 1)

\* A visit returns its paths together with the visited set and the path
\* buffer it leaves behind: both are shared by the whole search.
RECURSIVE findAllPaths(_, _, _, _, _)
RECURSIVE visitNeighbors(_, _, _, _, _, _, _)

\* lines 214-219: the loop over the neighbours of one visit
visitNeighbors(g, neighbors, i, endKey, visited, path, allPaths) ==
  IF i > Len(neighbors)
  THEN [visited |-> visited, path |-> path, paths |-> allPaths]
  ELSE IF neighbors[i] \notin visited
       THEN LET r == findAllPaths(g, neighbors[i], endKey, visited, path)
            IN visitNeighbors(g, neighbors, i + 1, endKey, r.visited, r.path,
                              allPaths \o r.paths)
       ELSE visitNeighbors(g, neighbors, i + 1, endKey, visited, path, allPaths)

\* faulty variant: the check of lines 199-201 for unknown keys is missing
findAllPaths_noGuard(g, startKey, endKey, visited, path) ==
  LET visited1 == visited \cup {startKey}
      path1 == Append(path, startKey)
  IN IF startKey = endKey
     THEN [visited |-> visited1, path |-> path1, paths |-> <<path1>>]
     ELSE LET neighbors == connectedWith(g, startKey)
              r == IF neighbors.defined
                   THEN visitNeighbors(g, neighbors.keys, 1, endKey,
                                       visited1, path1, <<>>)
                   ELSE [visited |-> visited1, path |-> path1, paths |-> <<>>]
          IN [visited |-> r.visited \ {startKey},
              path |-> pop(r.path),
              paths |-> r.paths]

findAllPaths(g, startKey, endKey, visited, path) ==
  IF ~hasNode(g, startKey) \/ ~hasNode(g, endKey)
  THEN [visited |-> visited, path |-> path, paths |-> <<>>]
  ELSE LET visited1 == visited \cup {startKey}
           path1 == Append(path, startKey)
       IN IF startKey = endKey
          THEN [visited |-> visited1, path |-> path1, paths |-> <<path1>>]
          ELSE LET neighbors == connectedWith(g, startKey)
                   r == IF neighbors.defined
                        THEN visitNeighbors(g, neighbors.keys, 1, endKey,
                                            visited1, path1, <<>>)
                        ELSE [visited |-> visited1, path |-> path1, paths |-> <<>>]
               IN [visited |-> r.visited \ {startKey},
                   path |-> pop(r.path),
                   paths |-> r.paths]

(* --------------- constructors (index.js lines 11-14) ------------------ *)

createGraph(directed, weighted) == Graph(directed, weighted)

UndirectedUnweightedGraph == createGraph(FALSE, TRUE)
DirectedUnweightedGraph == createGraph(TRUE, FALSE)
DirectedWeightedGraph == createGraph(TRUE, TRUE)
UndirectedWeightedGraph == createGraph(FALSE, TRUE)

\* the graph each way of constructing one yields; "Graph" is new Graph()
\* with the default arguments of Graph.js line 2
Construct(c) ==
  CASE c = "UndirectedUnweightedGraph" -> UndirectedUnweightedGraph
    [] c = "DirectedUnweightedGraph" -> DirectedUnweightedGraph
    [] c = "DirectedWeightedGraph" -> DirectedWeightedGraph
    [] c = "UndirectedWeightedGraph" -> UndirectedWeightedGraph
    [] c = "Graph" -> Graph(FALSE, FALSE)

Constructors == {"UndirectedUnweightedGraph", "DirectedUnweightedGraph",
                 "DirectedWeightedGraph", "UndirectedWeightedGraph", "Graph"}

(* ------- the directed weighted scenario (GraphCanvas.tsx 171-196) ----- *)

metroLinks ==
  << <<"Downtown", "Mall", 150>>,
     <<"Mall", "Airport", 200>>,
     <<"Airport", "Hotel District", 100>>,
     <<"Hotel District", "Downtown", 75>>,
     <<"Downtown", "University", 120>>,
     <<"University", "Hospital", 90>>,
     <<"Hospital", "Mall", 110>>,
     <<"Mall", "Residential Area", 180>>,
     <<"Residential Area", "School District", 95>>,
     <<"School District", "Downtown", 130>>,
     <<"University", "Tech Park", 160>>,
     <<"Tech Park", "Airport", 140>>,
     <<"Tech Park", "Mall", 85>>,
     <<"Hospital", "Residential Area", 70>>,
     <<"Residential Area", "University", 105>> >>

\* lines 190-192: metroLinks.forEach(([from, to, weight]) => addLink(...))
RECURSIVE forEachAddLink(_, _, _)
forEachAddLink(g, linkList, i) ==
  IF i > Len(linkList) THEN g
  ELSE forEachAddLink(addLink(g, linkList[i][1], linkList[i][2],
                              Num(linkList[i][3])).this,
                      linkList, i + 1)

\* line 171 and 190-192: the graph the component hands to the visualizer
metroGraph == forEachAddLink(DirectedWeightedGraph, metroLinks, 1)

(* ------------------------------ the calls ----------------------------- *)

\* the weight arguments callers pass: finite numbers, no argument, and the
\* values line 40 rejects (NaN, the infinities, a value that is no number)
WeightArgs == {Num(n) : n \in FiniteWeights}
                \cup {undefinedValue, NaN, Infinity, NegInfinity, NumericString(1)}

\* number of links held: an undirected link is stored in both directions
entries(g) == {<<i, j>> \in (0..g.counterId) \X (0..g.counterId) :
                 i \in DOMAIN g.links /\ j \in DOMAIN g.links[i]}
linkCount(g) ==
  IF g.isDirected THEN Cardinality(entries(g)) ELSE Cardinality(entries(g)) \div 2

WithinBounds(g) == g.counterId <= MaxId /\ linkCount(g) <= MaxLinks

SetThis(g) ==
  /\ isDirected' = g.isDirected
  /\ isWeighted' = g.isWeighted
  /\ counterId' = g.counterId
  /\ keyToIdTable' = g.keyToIdTable
  /\ idToKeyTable' = g.idToKeyTable
  /\ links' = g.links
  /\ mainNodes' = g.mainNodes

\* the most recent path query: its name, its two endpoints and what it
\* returned; a mutation of the graph forgets it
Called(op, endpoints, ret) ==
  [ret |-> ret, op |-> op, endpoints |-> endpoints]

NoCall == Called("none", <<>>, <<>>)

Init ==
  /\ ctor \in Constructors
  /\ isDirected = Construct(ctor).isDirected
  /\ isWeighted = Construct(ctor).isWeighted
  /\ counterId = Construct(ctor).counterId
  /\ keyToIdTable = Construct(ctor).keyToIdTable
  /\ idToKeyTable = Construct(ctor).idToKeyTable
  /\ links = Construct(ctor).links
  /\ mainNodes = Construct(ctor).mainNodes
  /\ last = NoCall

AddNode(key) ==
  /\ LET r == addNode(this, key)
     IN /\ WithinBounds(r.this)
        /\ SetThis(r.this)
        /\ last' = NoCall
  /\ UNCHANGED ctor

AddLink(key1, key2, weight) ==
  /\ LET r == addLink(this, key1, key2, weight)
     IN /\ WithinBounds(r.this)
        /\ SetThis(r.this)
        /\ last' = NoCall
  /\ UNCHANGED ctor

RemoveLink(key1, key2) ==
  /\ LET r == removeLink(this, key1, key2)
     IN /\ SetThis(r.this)
        /\ last' = NoCall
  /\ UNCHANGED ctor

RemoveNode(key) ==
  /\ LET r == removeNode(this, key)
     IN /\ SetThis(r.this)
        /\ last' = NoCall
  /\ UNCHANGED ctor

Next ==
  \/ \E key \in Keys : AddNode(key)
  \/ \E key1 \in Keys, key2 \in Keys, weight \in WeightArgs : AddLink(key1, key2, weight)
  \/ \E key1 \in Keys, key2 \in Keys : RemoveLink(key1, key2)
  \/ \E key \in Keys : RemoveNode(key)

Spec == Init /\ [][Next]_vars

(* ----------------- the calls with the tagging of nodes ---------------- *)

SetMainNode(key) ==
  /\ LET r == setMainNode(this, key)
     IN /\ SetThis(r.this)
        /\ last' = NoCall
  /\ UNCHANGED ctor

\* callers that leave the weight out and tag nodes
NextTags ==
  \/ \E key \in Keys : AddNode(key)
  \/ \E key1 \in Keys, key2 \in Keys : AddLink(key1, key2, undefinedValue)
  \/ \E key1 \in Keys, key2 \in Keys : RemoveLink(key1, key2)
  \/ \E key \in Keys : RemoveNode(key)
  \/ \E key \in Keys : SetMainNode(key)

SpecTags == Init /\ [][NextTags]_vars

(* ------------- the path queries on graphs built by callers ------------ *)

\* the links a caller adds while building a graph
LinkArgs == {l \in Keys \X Keys \X FiniteWeights : l[1] # l[2]}

\* keys the path queries are called with
QueryKeys == Keys \cup Range(nodes(this))

\* a caller adds up to MaxBuild links and then removes one node or none
\* (removeNode of a key that is not a node returns false)
built(c, linkList, removed) ==
  removeNode(forEachAddLink(Construct(c), linkList, 1), removed).this

IsThis(g) ==
  /\ isDirected = g.isDirected
  /\ isWeighted = g.isWeighted
  /\ counterId = g.counterId
  /\ keyToIdTable = g.keyToIdTable
  /\ idToKeyTable = g.idToKeyTable
  /\ links = g.links
  /\ mainNodes = g.mainNodes

InitPaths ==
  /\ \/ \E c \in Constructors, n \in 0..MaxBuild :
          \E linkList \in [1..n -> LinkArgs], removed \in Keys \cup {undefined} :
             ctor = c /\ IsThis(built(c, linkList, removed))
     \/ ctor = "DirectedWeightedGraph" /\ IsThis(metroGraph)
  /\ last = NoCall

Dijkstra(startKey, endKey) ==
  /\ last' = Called("dijkstra", <<startKey, endKey>>,
                    dijkstra(this, startKey, endKey))
  /\ UNCHANGED <<ctor, isDirected, isWeighted, counterId, keyToIdTable,
                 idToKeyTable, links, mainNodes>>

FindAllPaths(startKey, endKey) ==
  /\ last' = Called("findAllPaths", <<startKey, endKey>>,
                    findAllPaths(this, startKey, endKey, {}, <<>>).paths)
  /\ UNCHANGED <<ctor, isDirected, isWeighted, counterId, keyToIdTable,
                 idToKeyTable, links, mainNodes>>

NextPaths ==
  \/ \E startKey \in QueryKeys, endKey \in QueryKeys : Dijkstra(startKey, endKey)
  \/ \E startKey \in QueryKeys, endKey \in QueryKeys : FindAllPaths(startKey, endKey)

SpecPaths == InitPaths /\ [][NextPaths]_vars

(* ------ the undirected scenario (GraphCanvas.tsx lines 40-65) and ------ *)
(* ------ graphs under construction, with the calls made so far ---------- *)

\* lines 43-55: the list the component hands to addLink (it calls this list
\* metroLinks as well); the entries carry no weight
socialLinks ==
  << <<"Alice", "Bob">>,
     <<"Bob", "Charlie">>,
     <<"Charlie", "David">>,
     <<"David", "Alice">>,
     <<"Alice", "Eve">>,
     <<"Eve", "Frank">>,
     <<"Frank", "Bob">>,
     <<"Charlie", "Grace">>,
     <<"Grace", "David">>,
     <<"Frank", "Henry">>,
     <<"Henry", "Alice">> >>

\* line 57
socialMainNodes == <<"Alice", "Bob", "Charlie">>

\* one call of a building method; key2 is undefined where the method takes
\* one key
Call(op, key1, key2) == [key1 |-> key1, key2 |-> key2, op |-> op]

\* the call carried out on g; addLink gets no weight (lines 59-61 pass the
\* missing third element of a pair, which is undefined)
apply(g, call) ==
  CASE call.op = "addNode" -> addNode(g, call.key1)
    [] call.op = "addLink" -> addLink(g, call.key1, call.key2, undefinedValue)
    [] call.op = "setMainNode" -> setMainNode(g, call.key1)

RECURSIVE replay(_, _, _)
replay(g, calls, i) ==
  IF i > Len(calls) THEN g
  ELSE replay(apply(g, calls[i]).this, calls, i + 1)

\* lines 59-65: the two forEach loops of the component
socialCalls ==
  [i \in 1..Len(socialLinks) |->
     Call("addLink", socialLinks[i][1], socialLinks[i][2])]
  \o [i \in 1..Len(socialMainNodes) |->
       Call("setMainNode", socialMainNodes[i], undefined)]

\* line 40 and 59-65: the graph the component hands to the visualizer
socialGraph == replay(UndirectedUnweightedGraph, socialCalls, 1)

\* the calls made so far on the graph under construction
CallsSoFar(calls) == Called("calls", <<>>, calls)

InitBuild ==
  \/ /\ ctor \in Constructors
     /\ IsThis(Construct(ctor))
     /\ last = CallsSoFar(<<>>)
  \/ /\ ctor = "UndirectedUnweightedGraph"
     /\ IsThis(socialGraph)
     /\ last = CallsSoFar(socialCalls)

\* a caller makes one more call, up to MaxBuild calls
Build(call) ==
  /\ last.op = "calls"
  /\ Len(last.ret) < MaxBuild
  /\ SetThis(apply(this, call).this)
  /\ last' = CallsSoFar(Append(last.ret, call))
  /\ UNCHANGED ctor

BuildAddNode(key) == Build(Call("addNode", key, undefined))
BuildAddLink(key1, key2) == Build(Call("addLink", key1, key2))
BuildSetMainNode(key) == Build(Call("setMainNode", key, undefined))

NextBuild ==
  \/ \E key \in Keys : BuildAddNode(key)
  \/ \E key1 \in Keys, key2 \in Keys : BuildAddLink(key1, key2)
  \/ \E key \in Keys : BuildSetMainNode(key)

SpecBuild == InitBuild /\ [][NextBuild]_vars

(* ------------ dijkstra, one iteration of its loop at a time ------------ *)

\* lines 141-156: the call passes the check of its keys and sets up the
\* search; last holds the endpoints and the search state
SearchStart(startKey, endKey) ==
  /\ last.op = "none"
  /\ hasNode(this, startKey)
  /\ hasNode(this, endKey)
  /\ last' = Called("search", <<startKey, endKey>>, dijkstraStart(this, startKey))
  /\ UNCHANGED <<ctor, isDirected, isWeighted, counterId, keyToIdTable,
                 idToKeyTable, links, mainNodes>>

\* lines 158-182: one pass through the while loop
SearchIteration ==
  /\ last.op = "search"
  /\ ~last.ret.stopped
  /\ Len(last.ret.queue) > 0
  /\ last' = Called("search", last.endpoints,
                    dijkstraIteration(this, last.ret, last.endpoints[2]))
  /\ UNCHANGED <<ctor, isDirected, isWeighted, counterId, keyToIdTable,
                 idToKeyTable, links, mainNodes>>

NextSearch ==
  \/ \E startKey \in QueryKeys, endKey \in QueryKeys : SearchStart(startKey, endKey)
  \/ SearchIteration

SpecSearch == InitPaths /\ [][NextSearch]_vars

(* ------------- graphs whose links carry negative weights --------------- *)

\* weights the callers pass when some are negative
SignedWeights == {0 - 2, 1}

SignedLinkArgs == {l \in Keys \X Keys \X SignedWeights : l[1] # l[2]}

InitSigned ==
  /\ \E c \in Constructors, n \in 0..MaxBuild :
        \E linkList \in [1..n -> SignedLinkArgs], removed \in Keys \cup {undefined} :
           ctor = c /\ IsThis(built(c, linkList, removed))
  /\ last = NoCall

SpecSigned == InitSigned /\ [][NextPaths \/ NextSearch]_vars

(* ------------- every query, on the graphs built by callers ------------- *)

\* the graphs the queries are called on: the built graphs, the metro
\* scenario and the social scenario with its tagged nodes
InitQueries ==
  \/ InitPaths
  \/ /\ ctor = "UndirectedUnweightedGraph"
     /\ IsThis(socialGraph)
     /\ last = NoCall

\* one call of a query; a query that takes fewer than two keys gets
\* undefined for the others
Query(op, key1, key2) ==
  /\ last' = Called(op, <<key1, key2>>,
        CASE op = "type" -> type(this)
          [] op = "hasNode" -> hasNode(this, key1)
          [] op = "hasLink" -> hasLink(this, key1, key2)
          [] op = "linkWeight" -> linkWeight(this, key1, key2)
          [] op = "connectedWith" -> connectedWith(this, key1)
          [] op = "nodes" -> nodes(this)
          [] op = "getMainNodes" -> getMainNodes(this)
          [] op = "dijkstra" -> dijkstra(this, key1, key2)
          [] op = "findAllPaths" -> findAllPaths(this, key1, key2, {}, <<>>).paths)
  /\ UNCHANGED <<ctor, isDirected, isWeighted, counterId, keyToIdTable,
                 idToKeyTable, links, mainNodes>>

NextQueries ==
  \/ \E op \in {"type", "nodes", "getMainNodes"} : Query(op, undefined, undefined)
  \/ \E op \in {"hasNode", "connectedWith"}, key \in QueryKeys :
        Query(op, key, undefined)
  \/ \E op \in {"hasLink", "linkWeight", "dijkstra", "findAllPaths"},
         key1 \in QueryKeys, key2 \in QueryKeys : Query(op, key1, key2)

SpecQueries == InitQueries /\ [][NextQueries]_vars

(* ------------------ reference notions used by the claims -------------- *)

LiveKeys(g) == DOMAIN g.keyToIdTable

\* simple paths that start at s: grown one outgoing link at a time
RECURSIVE growPaths(_, _, _)
growPaths(g, frontier, acc) ==
  LET longer == {Append(p, k) : p \in frontier, k \in LiveKeys(g)}
      next == {p \in longer : /\ hasLink(g, p[Len(p) - 1], p[Len(p)])
                              /\ \A i \in 1..(Len(p) - 1) : p[i] # p[Len(p)]}
  IN IF next = {} THEN acc ELSE growPaths(g, next, acc \cup next)

SimplePaths(g, s, e) ==
  IF s \notin LiveKeys(g) \/ e \notin LiveKeys(g) THEN {}
  ELSE {p \in growPaths(g, {<<s>>}, {<<s>>}) : p[Len(p)] = e}

RECURSIVE pathWeight(_, _)
pathWeight(g, p) ==
  IF Len(p) <= 1 THEN 0
  ELSE linkWeight(g, p[1], p[2]).n + pathWeight(g, Tail(p))

minDistance(g, s, e) ==
  LET ws == {pathWeight(g, p) : p \in SimplePaths(g, s, e)}
  IN CHOOSE d \in ws : \A x \in ws : d <= x

NonNegativeWeights(g) ==
  \A i \in DOMAIN g.links : \A j \in DOMAIN g.links[i] : g.links[i][j].n >= 0

NoRepeat(p) == \A i, j \in DOMAIN p : i # j => p[i] # p[j]

(* -------------------------------- claims ------------------------------ *)

\* C1: with non-negative stored weights, for live keys s and e with e
\* reachable from s, dijkstra(s, e) returns the minimum over all paths from
\* s to e of the sum of the stored link weights; on the metro scenario
\* graph dijkstra(Downtown, Hospital) returns the path Downtown, University,
\* Hospital with distance 210.
C1_ShortestPathOptimal ==
  last.op = "dijkstra" =>
    LET s == last.endpoints[1]
        e == last.endpoints[2]
    IN /\ (NonNegativeWeights(this) /\ SimplePaths(this, s, e) # {})
            => last.ret.distance = Num(minDistance(this, s, e))
       /\ (this = metroGraph /\ s = "Downtown" /\ e = "Hospital")
            => last.ret = [path |-> <<"Downtown", "University", "Hospital">>,
                           distance |-> Num(210)]

\* dijkstra returned a two-link path of weight 2 where a direct link of
\* weight 3 exists
C1_Witness ==
  /\ last.op = "dijkstra"
  /\ Len(last.ret.path) = 3
  /\ last.ret.distance = Num(2)
  /\ linkWeight(this, last.endpoints[1], last.endpoints[2]) = Num(3)

\* C2 (as claimed): findAllPaths(s, e) on live keys returns every simple
\* path from s to e and no returned path repeats a node.
C2_AllSimplePaths ==
  (/\ last.op = "findAllPaths"
   /\ hasNode(this, last.endpoints[1])
   /\ hasNode(this, last.endpoints[2]))
  => /\ SimplePaths(this, last.endpoints[1], last.endpoints[2])
          \subseteq Range(last.ret)
     /\ \A i \in DOMAIN last.ret : NoRepeat(last.ret[i])

\* C3 (as claimed): every id stored as a neighbour in an adjacency map is
\* the id of a live node.
C3_NoDanglingLink ==
  \A i \in DOMAIN links : \A j \in DOMAIN links[i] : j \in DOMAIN idToKeyTable

\* C4: after removeNode(k) returns true, hasNode(k) is false and hasLink(k, j)
\* and hasLink(j, k) are false for every other live key j.
C4_CascadeDelete ==
  \A k \in Keys :
     LET r == removeNode(this, k)
     IN r.ret = TRUE
          => /\ ~hasNode(r.this, k)
             /\ \A j \in LiveKeys(r.this) :
                   ~hasLink(r.this, k, j) /\ ~hasLink(r.this, j, k)

\* a node was removed from a directed graph while another live node still
\* held a link to it
C4_Witness ==
  /\ isDirected
  /\ \E i \in DOMAIN links : \E j \in DOMAIN links[i] : j \notin DOMAIN idToKeyTable

\* C5 (as claimed): connectedWith(j) of a live key j lists exactly the live
\* keys k with hasLink(j, k), and every element is a live key.
C5_ConnectedWithLiveKeys ==
  \A j \in LiveKeys(this) :
     LET cw == connectedWith(this, j)
     IN /\ cw.defined
        /\ \A i \in DOMAIN cw.keys : cw.keys[i] \in LiveKeys(this)
        /\ Range(cw.keys) = {k \in LiveKeys(this) : hasLink(this, j, k)}

\* C6 (as claimed): each named constructor yields the flags its name states.
C6_ConstructorFlags ==
  /\ ctor = "UndirectedUnweightedGraph"
       => type(this) = [directed |-> FALSE, weighted |-> FALSE]
  /\ ctor = "DirectedUnweightedGraph"
       => type(this) = [directed |-> TRUE, weighted |-> FALSE]
  /\ ctor = "DirectedWeightedGraph"
       => type(this) = [directed |-> TRUE, weighted |-> TRUE]
  /\ ctor = "UndirectedWeightedGraph"
       => type(this) = [directed |-> FALSE, weighted |-> TRUE]

\* C7: in an undirected graph hasLink(a, b) equals hasLink(b, a) and, when
\* true, linkWeight(a, b) equals linkWeight(b, a), in every reachable state.
C7_UndirectedSymmetry ==
  ~isDirected =>
    \A a \in Keys, b \in Keys :
       /\ hasLink(this, a, b) = hasLink(this, b, a)
       /\ hasLink(this, a, b) => linkWeight(this, a, b) = linkWeight(this, b, a)

\* an undirected graph holds a link of weight 3 after a node was removed
C7_Witness ==
  /\ ~isDirected
  /\ counterId > Cardinality(LiveKeys(this))
  /\ \E a \in Keys, b \in Keys : linkWeight(this, a, b) = Num(3)

\* a weight argument that was supplied and is not a finite real number
NotFiniteNumber(w) ==
  w # undefinedValue /\ ~(w.type = "number" /\ w.kind = "finite")

\* C8 (as claimed): addLink raises the TypeError whenever its weight
\* argument is not a finite number, for every graph and every pair of keys.
C8_AlwaysRaises ==
  \A key1 \in Keys, key2 \in Keys, w \in WeightArgs :
     NotFiniteNumber(w) => addLink(this, key1, key2, w).error = "TypeError"

\* C8 (amended): addLink raises the TypeError exactly when the graph is
\* weighted, the keys differ, the link key1 -> key2 does not exist yet and
\* the weight argument is supplied and is not a finite number.
C8_RaisesExactlyWhen ==
  \A key1 \in Keys, key2 \in Keys, w \in WeightArgs :
     addLink(this, key1, key2, w).error = "TypeError"
       <=> (/\ isWeighted
            /\ key1 # key2
            /\ ~hasLink(this, key1, key2)
            /\ NotFiniteNumber(w))

\* a weighted graph holds the link a -> b only: addLink(b, a, NaN) raises,
\* addLink(a, b, NaN) returns false without raising
C8_Witness ==
  \E a \in Keys, b \in Keys :
     /\ hasLink(this, a, b)
     /\ addLink(this, b, a, NaN).error = "TypeError"
     /\ addLink(this, a, b, NaN).error = "none"

\* C9: whenever addLink raises, the graph is exactly what it was before the
\* call: no node created, counterId not advanced, no adjacency entry added.
C9_RaiseLeavesGraph ==
  \A key1 \in Keys, key2 \in Keys, w \in WeightArgs :
     LET r == addLink(this, key1, key2, w)
     IN r.error = "TypeError" => r.this = this

\* after a removal one endpoint is a node and the other is not, and addLink
\* between them with an infinite weight raises
C9_Witness ==
  \E a \in Keys, b \in Keys :
     /\ hasNode(this, a)
     /\ ~hasNode(this, b)
     /\ counterId > Cardinality(LiveKeys(this))
     /\ addLink(this, a, b, Infinity).error = "TypeError"

\* the adjacency entries of g other than those in the set except
SameEntries(g, h, except) ==
  \A i \in 0..h.counterId, j \in 0..h.counterId :
     <<i, j>> \notin except =>
        /\ (i \in DOMAIN g.links /\ j \in DOMAIN g.links[i])
             <=> (i \in DOMAIN h.links /\ j \in DOMAIN h.links[i])
        /\ (i \in DOMAIN g.links /\ j \in DOMAIN g.links[i])
             => g.links[i][j] = h.links[i][j]

\* C10: a successful addLink(a, b, w) on a weighted graph with finite w,
\* a # b and no link a -> b returns true; afterwards a and b are nodes
\* (created a before b where missing) and linkWeight(a, b) = w; undirected:
\* linkWeight(b, a) = w too; directed: the link b -> a is untouched; no
\* other node or link changes.
C10_AddLinkEffect ==
  \A a \in Keys, b \in Keys, w \in FiniteWeights :
     (isWeighted /\ a # b /\ ~hasLink(this, a, b))
     => LET r == addLink(this, a, b, Num(w))
            g == r.this
        IN /\ r.ret = TRUE
           /\ r.error = "none"
           /\ hasNode(g, a)
           /\ hasNode(g, b)
           /\ linkWeight(g, a, b) = Num(w)
           /\ ~hasNode(this, a) => g.keyToIdTable[a] = counterId
           /\ ~hasNode(this, b) =>
                 g.keyToIdTable[b] = IF hasNode(this, a) THEN counterId
                                     ELSE counterId + 1
           /\ ~isDirected => linkWeight(g, b, a) = Num(w)
           /\ isDirected => linkWeight(g, b, a) = linkWeight(this, b, a)
           /\ LiveKeys(g) = LiveKeys(this) \cup {a, b}
           /\ \A k \in LiveKeys(this) : g.keyToIdTable[k] = keyToIdTable[k]
           /\ \A i \in DOMAIN g.idToKeyTable : g.keyToIdTable[g.idToKeyTable[i]] = i
           /\ DOMAIN g.links = DOMAIN g.idToKeyTable
           /\ g.counterId = counterId + Cardinality({a, b} \ LiveKeys(this))
           /\ SameEntries(this, g,
                          {<<g.keyToIdTable[a], g.keyToIdTable[b]>>}
                            \cup IF isDirected THEN {}
                                 ELSE {<<g.keyToIdTable[b], g.keyToIdTable[a]>>})
           /\ g.mainNodes = mainNodes
           /\ type(g) = type(this)

\* the first addLink on a weighted graph created both endpoints and stored
\* weight 3
C10_Witness ==
  /\ isWeighted
  /\ counterId = 2
  /\ Cardinality(LiveKeys(this)) = 2
  /\ \E a \in Keys, b \in Keys : linkWeight(this, a, b) = Num(3)

\* C11: in a graph constructed with weighted = false every stored link has
\* weight 1, and addLink never raises and stores 1 whatever weight argument
\* it is given (finite, missing, NaN, infinite or not a number).
C11_UnweightedUnitWeight ==
  ~isWeighted =>
    /\ \A i \in DOMAIN links : \A j \in DOMAIN links[i] : links[i][j] = Num(1)
    /\ \A a \in Keys, b \in Keys :
          hasLink(this, a, b) => linkWeight(this, a, b) = Num(1)
    /\ \A a \in Keys, b \in Keys, w \in WeightArgs :
          LET r == addLink(this, a, b, w)
          IN /\ r.error = "none"
             /\ (a # b /\ ~hasLink(this, a, b))
                  => r.ret = TRUE /\ linkWeight(r.this, a, b) = Num(1)

\* an unweighted directed graph holds a -> b and accepts addLink(b, a, NaN)
C11_Witness ==
  /\ ~isWeighted
  /\ \E a \in Keys, b \in Keys :
        /\ hasLink(this, a, b)
        /\ ~hasLink(this, b, a)
        /\ addLink(this, b, a, NaN).ret = TRUE

\* C12: no adjacency map contains the id of its own node, and for every key
\* k and every weight argument addLink(k, k, weight) returns false without
\* raising and leaves the graph as it was (k is not created).
C12_NoSelfLoop ==
  /\ \A i \in DOMAIN links : i \notin DOMAIN links[i]
  /\ \A k \in Keys, w \in WeightArgs :
        addLink(this, k, k, w) = Result(this, FALSE, "none")

\* the graph holds a link and k is not a node: addLink(k, k, NaN) is refused
C12_Witness ==
  /\ \E i \in DOMAIN links : links[i] # EmptyObject
  /\ \E k \in Keys :
        ~hasNode(this, k) /\ addLink(this, k, k, NaN).ret = FALSE

\* the neighbours of key in the order in which the addLink calls created
\* its adjacency entries
RECURSIVE linkOrder(_, _, _, _, _)
linkOrder(calls, i, key, directed, acc) ==
  IF i > Len(calls) THEN acc
  ELSE LET c == calls[i]
           other == IF c.op # "addLink" \/ c.key1 = c.key2 THEN undefined
                    ELSE IF c.key1 = key THEN c.key2
                    ELSE IF c.key2 = key /\ ~directed THEN c.key1
                    ELSE undefined
       IN linkOrder(calls, i + 1, key, directed,
                    IF other = undefined \/ includes(acc, other) THEN acc
                    ELSE Append(acc, other))

\* the keys in the order in which the calls created their nodes
RECURSIVE creationOrder(_, _, _)
creationOrder(calls, i, acc) ==
  IF i > Len(calls) THEN acc
  ELSE LET c == calls[i]
           acc1 == IF (c.op = "addNode" \/ (c.op = "addLink" /\ c.key1 # c.key2))
                      /\ ~includes(acc, c.key1)
                   THEN Append(acc, c.key1) ELSE acc
           acc2 == IF c.op = "addLink" /\ c.key1 # c.key2 /\ ~includes(acc1, c.key2)
                   THEN Append(acc1, c.key2) ELSE acc1
       IN creationOrder(calls, i + 1, acc2)

\* C13 (as claimed): after any sequence of addNode/addLink calls,
\* connectedWith(key) lists the outgoing neighbours of a node in the order
\* in which the links were added, and is undefined for a key that is no
\* node; on the social scenario connectedWith(Alice) is Bob, David, Eve,
\* Henry.
C13_LinkInsertionOrder ==
  last.op = "calls" =>
    /\ \A key \in QueryKeys :
          connectedWith(this, key) =
            IF includes(creationOrder(last.ret, 1, <<>>), key)
            THEN Defined(linkOrder(last.ret, 1, key, isDirected, <<>>))
            ELSE Absent
    /\ last.ret = socialCalls
         => connectedWith(this, "Alice")
              = Defined(<<"Bob", "David", "Eve", "Henry">>)

\* C13 (amended): after any sequence of addNode/addLink calls,
\* connectedWith(key) lists the outgoing neighbours of a node in the order
\* in which the neighbour nodes were created (ascending id), and is
\* undefined for a key that is no node; on the social scenario
\* connectedWith(Alice) is Bob, David, Eve, Henry.
C13_NodeCreationOrder ==
  last.op = "calls" =>
    /\ \A key \in QueryKeys :
          connectedWith(this, key) =
            IF includes(creationOrder(last.ret, 1, <<>>), key)
            THEN Defined(SelectSeq(creationOrder(last.ret, 1, <<>>),
                   LAMBDA k : includes(linkOrder(last.ret, 1, key, isDirected, <<>>), k)))
            ELSE Absent
    /\ last.ret = socialCalls
         => connectedWith(this, "Alice")
              = Defined(<<"Bob", "David", "Eve", "Henry">>)

\* a node whose links were added in another order than its neighbours were
\* created
C13_Witness ==
  /\ last.op = "calls"
  /\ \E key \in Keys :
        /\ hasNode(this, key)
        /\ Len(connectedWith(this, key).keys) = 2
        /\ connectedWith(this, key).keys
             # linkOrder(last.ret, 1, key, isDirected, <<>>)

\* C14: for live keys s and e, dijkstra(s, e) returns the empty path with
\* distance Infinity exactly when e cannot be reached from s along outgoing
\* links; an unreached live e never yields the path consisting of e alone.
C14_NoPathIffUnreachable ==
  (/\ last.op = "dijkstra"
   /\ hasNode(this, last.endpoints[1])
   /\ hasNode(this, last.endpoints[2]))
  => LET s == last.endpoints[1]
         e == last.endpoints[2]
         unreachable == SimplePaths(this, s, e) = {}
     IN /\ (last.ret = NoPath) <=> unreachable
        /\ (last.ret.path = <<>>) <=> unreachable
        /\ (last.ret.distance = Infinity) <=> unreachable
        /\ s # e => last.ret.path # <<e>>

\* dijkstra(s, e) found no path although the link e -> s exists
C14_Witness ==
  /\ last.op = "dijkstra"
  /\ last.endpoints[1] # last.endpoints[2]
  /\ hasLink(this, last.endpoints[2], last.endpoints[1])
  /\ last.ret = NoPath

\* C15: a path query with a start key or an end key that is no node returns
\* the empty path with distance Infinity (dijkstra) or no path at all
\* (findAllPaths) and leaves every field of the graph as it was.
C15_UnknownEndpoint ==
  [][(/\ last'.op \in {"dijkstra", "findAllPaths"}
      /\ \/ ~hasNode(this, last'.endpoints[1])
         \/ ~hasNode(this, last'.endpoints[2]))
     => /\ last'.op = "dijkstra" => last'.ret = NoPath
        /\ last'.op = "findAllPaths" => last'.ret = <<>>
        /\ this' = this]_vars

\* findAllPaths(k, k) returned no path for a key k that is no node, on a
\* graph that had a node removed
C15_Witness ==
  /\ last.op = "findAllPaths"
  /\ last.endpoints[1] = last.endpoints[2]
  /\ ~hasNode(this, last.endpoints[1])
  /\ counterId > Cardinality(LiveKeys(this))
  /\ last.ret = <<>>

\* C16: addNode(k) returns true exactly when k is no node; a call that
\* returns false leaves the whole graph as it was; after a call that returns
\* true a second addNode(k) returns false, and k stays a node under every
\* call other than removeNode(k), so addNode(k) returns true at most once
\* between two removals of k.
C16_AddNodeOnce ==
  \A k \in Keys :
     LET r == addNode(this, k)
     IN /\ r.error = "none"
        /\ r.ret = ~hasNode(this, k)
        /\ r.ret = FALSE => r.this = this
        /\ r.ret = TRUE => hasNode(r.this, k) /\ addNode(r.this, k).ret = FALSE
        /\ hasNode(this, k) =>
             /\ \A j \in Keys \ {k} :
                   /\ hasNode(removeNode(this, j).this, k)
                   /\ hasNode(addNode(this, j).this, k)
                   /\ hasNode(setMainNode(this, j).this, k)
             /\ hasNode(setMainNode(this, k).this, k)
             /\ \A a \in Keys, b \in Keys :
                   /\ hasNode(removeLink(this, a, b).this, k)
                   /\ \A w \in WeightArgs : hasNode(addLink(this, a, b, w).this, k)

\* after a removal the graph has a node k that was not its first node:
\* addNode(k) returns false, and addNode of a key that is no node returns
\* true
C16_Witness ==
  /\ counterId > Cardinality(LiveKeys(this))
  /\ \E k \in Keys, j \in Keys :
        /\ hasNode(this, k)
        /\ keyToIdTable[k] > 0
        /\ addNode(this, k).ret = FALSE
        /\ ~hasNode(this, j)
        /\ addNode(this, j).ret = TRUE

\* C17: every mutating call that returns false leaves the whole graph as it
\* was: addLink on an existing link (the stored weight is kept) or on equal
\* keys, removeLink on a link that does not exist, removeNode and
\* setMainNode on a key that is no node.
C17_FalseLeavesGraph ==
  /\ \A a \in Keys, b \in Keys, w \in WeightArgs :
        LET r == addLink(this, a, b, w)
        IN /\ (a = b \/ hasLink(this, a, b)) => r = Result(this, FALSE, "none")
           /\ (r.ret = FALSE /\ r.error = "none") => r.this = this
  /\ \A a \in Keys, b \in Keys :
        LET r == removeLink(this, a, b)
        IN /\ ~hasLink(this, a, b) => r = Result(this, FALSE, "none")
           /\ r.ret = FALSE => r.this = this
  /\ \A k \in Keys :
        /\ ~hasNode(this, k) => removeNode(this, k) = Result(this, FALSE, "none")
        /\ removeNode(this, k).ret = FALSE => removeNode(this, k).this = this
        /\ ~hasNode(this, k) => setMainNode(this, k) = Result(this, FALSE, "none")
        /\ setMainNode(this, k).ret = FALSE => setMainNode(this, k).this = this
        /\ addNode(this, k).ret = FALSE => addNode(this, k).this = this

\* a weighted graph holds a link of weight 1: addLink on it with weight 3
\* returns false
C17_Witness ==
  /\ isWeighted
  /\ \E a \in Keys, b \in Keys :
        /\ linkWeight(this, a, b) = Num(1)
        /\ addLink(this, a, b, Num(3)).ret = FALSE

\* C18: removeLink(a, b) on an existing link returns true and removes the
\* entry a -> b; undirected: the entry b -> a too; directed: a link b -> a
\* keeps its presence and weight; both endpoints stay nodes and nothing else
\* changes.
C18_RemoveLinkEffect ==
  \A a \in Keys, b \in Keys :
     hasLink(this, a, b)
     => LET r == removeLink(this, a, b)
            g == r.this
        IN /\ r.ret = TRUE
           /\ r.error = "none"
           /\ ~hasLink(g, a, b)
           /\ ~isDirected => ~hasLink(g, b, a)
           /\ isDirected => /\ hasLink(g, b, a) = hasLink(this, b, a)
                            /\ linkWeight(g, b, a) = linkWeight(this, b, a)
           /\ hasNode(g, a)
           /\ hasNode(g, b)
           /\ g.keyToIdTable = keyToIdTable
           /\ g.idToKeyTable = idToKeyTable
           /\ g.counterId = counterId
           /\ g.mainNodes = mainNodes
           /\ type(g) = type(this)
           /\ DOMAIN g.links = DOMAIN links
           /\ SameEntries(this, g,
                          {<<keyToIdTable[a], keyToIdTable[b]>>}
                            \cup IF isDirected THEN {}
                                 ELSE {<<keyToIdTable[b], keyToIdTable[a]>>})

\* a directed graph holds a -> b and, with weight 3, b -> a
C18_Witness ==
  /\ isDirected
  /\ \E a \in Keys, b \in Keys :
        hasLink(this, a, b) /\ linkWeight(this, b, a) = Num(3)

\* C19: keyToIdTable and idToKeyTable are inverse bijections between the
\* keys of the nodes and their ids, and the ids that have an adjacency map
\* are exactly the ids of the nodes, also for nodes without links.
C19_IdMapsInverse ==
  /\ \A k \in DOMAIN keyToIdTable :
        /\ keyToIdTable[k] \in DOMAIN idToKeyTable
        /\ idToKeyTable[keyToIdTable[k]] = k
  /\ \A i \in DOMAIN idToKeyTable :
        /\ idToKeyTable[i] \in DOMAIN keyToIdTable
        /\ keyToIdTable[idToKeyTable[i]] = i
  /\ DOMAIN links = DOMAIN idToKeyTable

\* after a removal two nodes are left, one of them without links
C19_Witness ==
  /\ counterId > Cardinality(LiveKeys(this))
  /\ Cardinality(LiveKeys(this)) = 2
  /\ \E k \in LiveKeys(this) : links[keyToIdTable[k]] = EmptyObject

\* C20: in every step counterId does not decrease and grows by exactly the
\* number of nodes the step creates; the ids of these nodes are the values
\* the counter passes, so each is greater than every id assigned before,
\* and every id held by a node or stored as a neighbour is below counterId.
C20_FreshIds ==
  [][LET created == DOMAIN idToKeyTable' \ DOMAIN idToKeyTable
     IN /\ counterId' >= counterId
        /\ counterId' = counterId + Cardinality(created)
        /\ created = counterId..(counterId' - 1)
        /\ \A i \in DOMAIN idToKeyTable : i < counterId
        /\ \A i \in DOMAIN links : \A j \in DOMAIN links[i] : j < counterId
        /\ \A i \in DOMAIN idToKeyTable' : i < counterId'
        /\ \A k \in DOMAIN keyToIdTable \cap DOMAIN keyToIdTable' :
              keyToIdTable'[k] # keyToIdTable[k] => keyToIdTable'[k] >= counterId
    ]_vars

\* three nodes were created and two removed; the one left has id 2
C20_Witness ==
  /\ counterId = 3
  /\ DOMAIN idToKeyTable = {2}

\* C21: nodes() lists exactly the keys of the nodes, each once, in ascending
\* id order; a node that is created, also one whose key was removed before,
\* goes to the end of the list, a removal takes its key out and keeps the
\* order of the rest, and removeLink changes nothing: the list is the order
\* in which the nodes that are left were created.
C21_NodesInCreationOrder ==
  LET ns == nodes(this)
      without(k) == SelectSeq(ns, LAMBDA x : x # k)
  IN /\ Range(ns) = LiveKeys(this)
     /\ NoRepeat(ns)
     /\ \A i \in DOMAIN ns, j \in DOMAIN ns :
           i < j => keyToIdTable[ns[i]] < keyToIdTable[ns[j]]
     /\ \A k \in Keys :
           /\ nodes(addNode(this, k).this)
                = IF hasNode(this, k) THEN ns ELSE Append(ns, k)
           /\ nodes(removeNode(this, k).this) = without(k)
           /\ nodes(addNode(removeNode(this, k).this, k).this)
                = Append(without(k), k)
     /\ \A a \in Keys, b \in Keys :
           /\ nodes(removeLink(this, a, b).this) = ns
           /\ \A w \in WeightArgs :
                 LET r == addLink(this, a, b, w)
                     na == IF hasNode(this, a) THEN ns ELSE Append(ns, a)
                 IN nodes(r.this)
                      = IF r.ret = FALSE THEN ns
                        ELSE IF hasNode(this, b) THEN na ELSE Append(na, b)

\* the first node was removed and two nodes are left, the later one holding
\* the greatest id assigned so far
C21_Witness ==
  /\ Len(nodes(this)) = 2
  /\ 0 \notin DOMAIN idToKeyTable
  /\ keyToIdTable[nodes(this)[2]] = counterId - 1
  /\ \E k \in LiveKeys(this) :
        nodes(addNode(removeNode(this, k).this, k).this)[2] = k

\* C22: setMainNode(k) returns true exactly when k is a node and then adds k
\* to mainNodes and changes nothing else; no other call changes mainNodes:
\* after removeNode(k) of a tagged key getMainNodes() still holds k, and a
\* node created later with this key is tagged without a setMainNode call.
C22_TagsOutliveNodes ==
  \A k \in Keys :
     LET r == setMainNode(this, k)
         removed == removeNode(this, k).this
     IN /\ r.error = "none"
        /\ r.ret = hasNode(this, k)
        /\ r.ret = TRUE => r.this = [this EXCEPT !.mainNodes = @ \cup {k}]
        /\ r.ret = FALSE => r.this = this
        /\ getMainNodes(addNode(this, k).this) = getMainNodes(this)
        /\ getMainNodes(removed) = getMainNodes(this)
        /\ getMainNodes(addNode(removed, k).this) = getMainNodes(this)
        /\ \A j \in Keys :
              /\ getMainNodes(removeLink(this, k, j).this) = getMainNodes(this)
              /\ \A w \in WeightArgs :
                    /\ getMainNodes(addLink(this, k, j, w).this) = getMainNodes(this)
                    /\ getMainNodes(addLink(removed, k, j, w).this) = getMainNodes(this)

\* a tagged key whose node was removed: the node created again by addNode
\* is tagged
C22_Witness ==
  \E k \in getMainNodes(this) :
     /\ ~hasNode(this, k)
     /\ hasNode(addNode(this, k).this, k)
     /\ k \in getMainNodes(addNode(this, k).this)

\* C23: a call of type, hasNode, hasLink, linkWeight, connectedWith, nodes,
\* getMainNodes, dijkstra or findAllPaths leaves every field of the graph as
\* it was; the two flags are those of the construction after any calls, and
\* no mutating call on a graph the queries start from changes them.
C23_QueriesArePure ==
  [][/\ this' = this
     /\ type(this) = type(Construct(ctor))
     /\ last.op = "none" =>
          \A key1 \in Keys :
             /\ type(addNode(this, key1).this) = type(this)
             /\ type(removeNode(this, key1).this) = type(this)
             /\ type(setMainNode(this, key1).this) = type(this)
             /\ \A key2 \in Keys :
                   /\ type(removeLink(this, key1, key2).this) = type(this)
                   /\ \A w \in WeightArgs :
                         type(addLink(this, key1, key2, w).this) = type(this)
    ]_vars

\* findAllPaths, which marks and unmarks nodes while it runs, returned a
\* path of three nodes on a directed graph
C23_Witness ==
  /\ last.op = "findAllPaths"
  /\ isDirected
  /\ last.ret # <<>>
  /\ Len(last.ret[1]) = 3

\* a path buffer that holds the keys of a visited set, in id order
bufferOf(visited) ==
  SelectSeq(nodes(this), LAMBDA k : k \in visited)

\* C24 (as claimed): every visit of findAllPaths, the visit of the target
\* included, leaves the shared visited set and path buffer as it found
\* them, so both are empty when the outermost call returns.
C24_VisitRestoresBuffers ==
  \A startKey \in QueryKeys, endKey \in QueryKeys :
     \A visited \in SUBSET (LiveKeys(this) \ {startKey}) :
        LET path == bufferOf(visited)
            r == findAllPaths(this, startKey, endKey, visited, path)
        IN r.visited = visited /\ r.path = path

\* C25: with non-negative weights every pass of dijkstra's loop extracts an
\* entry of the queue whose tentative distance is minimal in the queue; the
\* distance of the extracted node is then its shortest distance from the
\* start and is not changed by this or any later pass; the loop stops at
\* the pass that extracts the end key and at no other.
C25_ExtractsSettledMinimum ==
  [][(last.op = "search" /\ last'.op = "search")
     => LET st == last.ret
            st1 == last'.ret
            extracted == st1.visited \ st.visited
        IN /\ ~st.stopped
           /\ Cardinality(extracted) = 1
           /\ \A current \in extracted :
                 /\ includes(st.queue, current)
                 /\ ~includes(st1.queue, current)
                 /\ \A q \in Range(st.queue) :
                       ~JsLess(Get(st.distances, q), Get(st.distances, current))
                 /\ NonNegativeWeights(this)
                      => st.distances[current]
                           = Num(minDistance(this, last.endpoints[1], current))
                 /\ st1.distances[current] = st.distances[current]
                 /\ st1.stopped <=> current = last.endpoints[2]
           /\ \A v \in st.visited : st1.distances[v] = st.distances[v]
    ]_vars

\* three nodes are extracted; one of them has distance 2 although the start
\* has a link of weight 3 to it
C25_Witness ==
  /\ last.op = "search"
  /\ Cardinality(last.ret.visited) = 3
  /\ \E v \in last.ret.visited :
        /\ last.ret.distances[v] = Num(2)
        /\ linkWeight(this, last.endpoints[1], v) = Num(3)

\* C26: whenever dijkstra(s, e) returns a path that is not empty, with
\* negative weights too, the path starts with s, ends with e, repeats no
\* key, each consecutive pair is a link of the graph, and the returned
\* distance is the sum of the stored weights of these links.
C26_PathIsWalk ==
  (last.op = "dijkstra" /\ last.ret.path # <<>>)
  => LET p == last.ret.path
     IN /\ p[1] = last.endpoints[1]
        /\ p[Len(p)] = last.endpoints[2]
        /\ NoRepeat(p)
        /\ \A i \in 1..(Len(p) - 1) : hasLink(this, p[i], p[i + 1])
        /\ last.ret.distance = Num(pathWeight(this, p))

\* dijkstra returned a path of two links whose weights sum to a negative
\* number
C26_Witness ==
  /\ last.op = "dijkstra"
  /\ Len(last.ret.path) = 3
  /\ last.ret.distance.kind = "finite"
  /\ last.ret.distance.n < 0

\* the predecessor chain from current reaches none within fuel steps
RECURSIVE chainEnds(_, _, _)
chainEnds(previous, current, fuel) ==
  IF current = null THEN TRUE
  ELSE IF fuel = 0 THEN FALSE
  ELSE chainEnds(previous, previous[current], fuel - 1)

\* C27: with negative weights too, every pass of dijkstra's loop extracts a
\* node that was not extracted before, so there are at most as many passes
\* as nodes; the queue never holds a key twice nor an extracted key, and a
\* key is pushed only if it was never in the queue; from every node the
\* predecessor chain reaches a node without predecessor, without a cycle.
C27_SearchTerminates ==
  [][(last.op = "search" /\ last'.op = "search")
     => LET st == last.ret
            st1 == last'.ret
            pushed == Range(st1.queue) \ Range(st.queue)
        IN /\ Cardinality(st1.visited) = Cardinality(st.visited) + 1
           /\ st1.visited \subseteq LiveKeys(this)
           /\ st.visited \subseteq st1.visited
           /\ NoRepeat(st1.queue)
           /\ Range(st1.queue) \cap st1.visited = {}
           /\ \A q \in pushed :
                 /\ q \notin st.visited
                 /\ st.distances[q] = Infinity
                 /\ st.previous[q] = null
           /\ \A q \in Range(st1.queue) : st1.previous[q] \in st1.visited
           /\ \A k \in LiveKeys(this) :
                 chainEnds(st1.previous, k, Cardinality(LiveKeys(this)))
    ]_vars

\* all three nodes of a graph with links of negative weight in both
\* directions between two of them are extracted
C27_Witness ==
  /\ last.op = "search"
  /\ Cardinality(last.ret.visited) = 3
  /\ \E a \in Keys, b \in Keys :
        /\ hasLink(this, a, b)
        /\ hasLink(this, b, a)
        /\ linkWeight(this, a, b).n < 0
        /\ linkWeight(this, b, a).n < 0

\* the ids some node's links still name although no node holds them
staleIds(g) ==
  UNION {DOMAIN g.links[id] : id \in DOMAIN g.links} \ DOMAIN g.idToKeyTable

\* C28: a key that is no node (never created, or removed, whatever links
\* it had) is a fresh node once created again, directed or not. Right after
\* addNode(k) returned true, connectedWith(k) is empty and no link leaves or
\* reaches k; created by addLink, k has the new link and no other, and the
\* links between the other keys are what they were.
C28_RecreatedNodeIsFresh ==
  \A k \in Keys :
    ~hasNode(this, k)
    => /\ LET r == addNode(this, k)
          IN /\ r.ret = TRUE
             /\ connectedWith(r.this, k) = Defined(<<>>)
             /\ \A j \in Keys : /\ ~hasLink(r.this, k, j)
                                /\ ~hasLink(r.this, j, k)
             /\ \A i \in Keys \ {k}, j \in Keys \ {k} :
                   hasLink(r.this, i, j) <=> hasLink(this, i, j)
       /\ \A other \in Keys \ {k} :
            /\ LET g == addLink(this, k, other, undefinedValue).this
               IN /\ connectedWith(g, k) = Defined(<<other>>)
                  /\ \A j \in Keys : hasLink(g, j, k)
                                        <=> (j = other /\ ~g.isDirected)
            /\ LET g == addLink(this, other, k, undefinedValue).this
               IN /\ connectedWith(g, k)
                       = Defined(IF g.isDirected THEN <<>> ELSE <<other>>)
                  /\ \A j \in Keys : hasLink(g, j, k) <=> j = other

\* a node of a directed graph was created after the removal of a node that
\* another node still names in its links, and has no link
C28_Witness ==
  /\ isDirected
  /\ \E k \in Keys :
        /\ hasNode(this, k)
        /\ \E id \in staleIds(this) : keyToIdTable[k] > id
        /\ connectedWith(this, k) = Defined(<<>>)
        /\ \A j \in Keys : ~hasLink(this, j, k)

\* C29: for a node s, dijkstra(s, s) returns the path [s] with distance 0
\* and findAllPaths(s, s) returns [[s]] and nothing else, whatever links
\* the graph has (cycles through s, of negative weight too).
C29_SameEndpoints ==
  (/\ last.op \in {"dijkstra", "findAllPaths"}
   /\ last.endpoints[1] = last.endpoints[2]
   /\ hasNode(this, last.endpoints[1]))
  => /\ last.op = "dijkstra"
          => last.ret = [path |-> <<last.endpoints[1]>>, distance |-> Num(0)]
     /\ last.op = "findAllPaths" => last.ret = <<(<<last.endpoints[1]>>)>>

\* dijkstra(s, s) returned on a graph with a cycle of negative weight
\* through s
C29_Witness ==
  /\ last.op = "dijkstra"
  /\ last.endpoints[1] = last.endpoints[2]
  /\ last.ret.path = <<last.endpoints[1]>>
  /\ \E b \in Keys :
        /\ hasLink(this, last.endpoints[1], b)
        /\ hasLink(this, b, last.endpoints[1])
        /\ linkWeight(this, last.endpoints[1], b).n < 0

====
